---- MODULE Spec2Model ----
(***************************************************************************)
(* A model of lib/auth/auth.go: the AuthServer facade (certificate         *)
(* authority facade, join-token protocol, peer-authority bootstrap, web    *)
(* sessions).  Every facade method is translated step by step; a step is   *)
(* one call into a directory service or into the signing backend, which    *)
(* is where concurrent callers interleave.  The directory services, the    *)
(* signing backend and the token codec are not part of auth.go: they are   *)
(* modelled at their interface.                                            *)
(***************************************************************************)
EXTENDS Integers, Sequences, FiniteSets, TLC

VARIABLES
  tokens,        \* provisioning store: raw token -> record
  nextToken,     \* the next value the random source hands out as a raw token
  ca,            \* CA store: CA type -> record with its signing keys
  sealKeys,      \* key-management store: the seal keys added
  signing,       \* the certificate calls the Signing Backend received in the last step
  pc,            \* per caller: the step its current call is at ("idle": between calls)
  call,          \* per caller: the method and arguments of its current call
  local,         \* per caller: the local variables of its current call
  last,          \* the call that returned in the last step, with what it returned
  deleted,       \* history: the raw tokens a DeleteToken has removed
  outcome,       \* history: per observed caller, the error its call returned
  faulted,       \* history: the raw tokens whose redemption the Signing Backend failed
  sessions,      \* web-session store: <<user, session ID>> -> record
  nextSession,   \* the next value the random source hands out as a session ID
  now            \* the clock, in minutes

tokenVars == <<tokens, nextToken, sealKeys, deleted>>
webVars == <<sessions, nextSession, now>>
vars == <<tokens, nextToken, ca, sealKeys, signing, pc, call, local, last, deleted, outcome, faulted,
          sessions, nextSession, now>>

-----------------------------------------------------------------------------
(* Bounds *)

MaxTokens == 1
MaxSessions == 2
MaxClock == 10

\* the concurrent callers of the facade
Procs == {1, 2}
RawTokens == 1..MaxTokens
SessionIDs == 1..MaxSessions

-----------------------------------------------------------------------------
(* Values *)

Hostname == "cluster.example"

NodeNames == {"db1", "db2"}
BadNodeName == "bad name"

RoleAuth == "Auth"
ValidRoles == {"Node", RoleAuth}
BadRole == "Bogus"

SealKeys == {"peerSeal"}
PublicKeys == {"pub-k1", "pub-k2"}
UserNames == {"alice", "bob"}
HostCA == "host"
UserCA == "user"

\* an output token is the pair <<role tag, raw token>>; anything else is malformed
OutputTokens == {<<tag, raw>> : tag \in ValidRoles, raw \in RawTokens} \cup {<<"garbage">>}

NoToken == [present |-> FALSE, DomainName |-> "", Role |-> ""]
NoCert == [kind |-> "", pkey |-> "", key |-> "", id |-> "", authDomain |-> "", role |-> "", ttl |-> 0 - 1]
NoKeys == [Key |-> "", Cert |-> NoCert]
NoCall == [op |-> "none", outputToken |-> <<>>, name |-> "", role |-> "", key |-> ""]
\* a time.Time: an instant in minutes and a location
NoTime == [t |-> 0, loc |-> ""]
\* services.WebSession; Priv "" is the nil byte slice
NoWS == [Priv |-> "", Pub |-> NoCert, Expires |-> NoTime, BearerToken |-> 0]
\* Session
NoSession == [ID |-> 0, User |-> "", WS |-> NoWS]
\* an empty slot of the web-session store
NoStored == [present |-> FALSE, ws |-> NoWS, deadline |-> 0]
NoLocal == [k |-> "", pub |-> "", cert |-> NoCert, consumed |-> FALSE, sess |-> NoSession]
\* a return value: the error ("nil": none) and the value of each result type
NoRet == [err |-> "none", role |-> "", outputToken |-> <<>>, keys |-> NoKeys, key |-> "",
          session |-> NoSession]
Failed(e) == [NoRet EXCEPT !.err = e]
\* no call returned in the last step
NoEvent == [proc |-> 0, call |-> NoCall, ret |-> NoRet, consumed |-> FALSE]

-----------------------------------------------------------------------------
(* Collaborators outside auth.go, at their interface *)

IsValidDomainName(n) == n \in NodeNames

RoleCheck(r) == r \in ValidRoles

JoinTokenRole(token, role) == <<role, token>>

SplitTokenRole(out) ==
  IF Len(out) = 2
    THEN [err |-> "nil", token |-> out[2], role |-> out[1]]
    ELSE [err |-> "BadParameter", token |-> 0, role |-> ""]

\* ProvisioningService.GetToken
GetToken(token) ==
  IF token \in RawTokens /\ tokens[token].present
    THEN [err |-> "nil", tok |-> tokens[token]]
    ELSE [err |-> "NotFound", tok |-> NoToken]

\* ProvisioningService.DeleteToken: removes the record if it is there, NotFound if not
StoreDeleteToken(token) ==
  IF token \in RawTokens /\ tokens[token].present
    THEN [err |-> "nil", tokens |-> [tokens EXCEPT ![token] = NoToken]]
    ELSE [err |-> "NotFound", tokens |-> tokens]

\* ProvisioningService.UpsertToken
UpsertToken(token, nodeName, role) ==
  [tokens EXCEPT ![token] = [present |-> TRUE, DomainName |-> nodeName, Role |-> role]]

\* services.CertAuthority.FirstSigningKey
FirstSigningKey(c) ==
  IF Len(c.keys) = 0
    THEN [err |-> "NotFound", key |-> ""]
    ELSE [err |-> "nil", key |-> c.keys[1]]

\* CAService.GetCertAuthority
GetCertAuthority(type) ==
  IF ca[type].present
    THEN [err |-> "nil", ca |-> ca[type]]
    ELSE [err |-> "NotFound", ca |-> ca[type]]

\* Authority.GenerateKeyPair: the random pair named k, or an error
KeyNames == {"k1", "k2"}

GenerateKeyPair(k, ok) ==
  IF ok
    THEN [err |-> "nil", priv |-> "priv-" \o k, pub |-> "pub-" \o k]
    ELSE [err |-> "Internal", priv |-> "", pub |-> ""]

\* Authority.GenerateHostCert of the Signing Backend: a certificate, or an error;
\* either way the backend has received the call
AuthorityGenerateHostCert(pkey, key, hostname, authDomain, role, ttl, ok) ==
  [err |-> IF ok THEN "nil" ELSE "Internal",
   cert |-> IF ok
              THEN [kind |-> HostCA, pkey |-> pkey, key |-> key, id |-> hostname,
                    authDomain |-> authDomain, role |-> role, ttl |-> ttl]
              ELSE NoCert,
   calls |-> {[kind |-> HostCA, pkey |-> pkey]}]

\* Authority.GenerateUserCert of the Signing Backend
AuthorityGenerateUserCert(pkey, key, username, ttl, ok) ==
  [err |-> IF ok THEN "nil" ELSE "Internal",
   cert |-> IF ok
              THEN [kind |-> UserCA, pkey |-> pkey, key |-> key, id |-> username,
                    authDomain |-> "", role |-> "", ttl |-> ttl]
              ELSE NoCert,
   calls |-> {[kind |-> UserCA, pkey |-> pkey]}]

-----------------------------------------------------------------------------
(* Certificate Authority Facade *)

\* AuthServer.GenerateHostCert; ok: whether the Signing Backend answers
GenerateHostCert(key, hostname, authDomain, role, ttl, ok) ==
  LET g == GetCertAuthority(HostCA) IN
  IF g.err # "nil"
    THEN [err |-> g.err, cert |-> NoCert, calls |-> {}]
    ELSE LET f == FirstSigningKey(g.ca) IN
         IF f.err # "nil"
           THEN [err |-> f.err, cert |-> NoCert, calls |-> {}]
           ELSE AuthorityGenerateHostCert(f.key, key, hostname, authDomain, role, ttl, ok)

\* GenerateUserCert as it would be if a CA without signing keys were not an error
GenerateUserCert_NoKeyCheck(key, username, ttl, ok) ==
  LET g == GetCertAuthority(UserCA) IN
  IF g.err # "nil"
    THEN [err |-> g.err, cert |-> NoCert, calls |-> {}]
    ELSE AuthorityGenerateUserCert(FirstSigningKey(g.ca).key, key, username, ttl, ok)

\* AuthServer.GenerateUserCert
GenerateUserCert(key, username, ttl, ok) ==
  LET g == GetCertAuthority(UserCA) IN
  IF g.err # "nil"
    THEN [err |-> g.err, cert |-> NoCert, calls |-> {}]
    ELSE LET f == FirstSigningKey(g.ca) IN
         IF f.err # "nil"
           THEN [err |-> f.err, cert |-> NoCert, calls |-> {}]
           ELSE AuthorityGenerateUserCert(f.key, key, username, ttl, ok)

-----------------------------------------------------------------------------
(* Calls and returns *)

Call(op, outputToken, name, role, key) ==
  [op |-> op, outputToken |-> outputToken, name |-> name, role |-> role, key |-> key]

\* the call c of caller p returns r; cons: the call removed the token record
Return(p, c, r, cons) ==
  /\ pc' = [pc EXCEPT ![p] = "idle"]
  /\ call' = [call EXCEPT ![p] = NoCall]
  /\ local' = [local EXCEPT ![p] = NoLocal]
  /\ last' = [proc |-> p, call |-> c, ret |-> r, consumed |-> cons]
  /\ outcome' = IF p \in DOMAIN outcome THEN [outcome EXCEPT ![p] = r.err] ELSE outcome
  /\ faulted' = IF c.op = "RegisterUsingToken" /\ r.err = "Internal"
                  THEN faulted \cup {c.outputToken[2]}
                  ELSE faulted

\* the call c of caller p goes on to step next with locals l
Goto(p, c, next, l) ==
  /\ pc' = [pc EXCEPT ![p] = next]
  /\ call' = [call EXCEPT ![p] = c]
  /\ local' = [local EXCEPT ![p] = l]
  /\ last' = NoEvent
  /\ UNCHANGED <<outcome, faulted>>

-----------------------------------------------------------------------------
(* Join-Token Protocol *)

\* AuthServer.GenerateToken; randOK, upsertOK: whether the random source and the
\* provisioning store answer.  The random source never repeats a token.
GenerateToken(p) ==
  /\ pc[p] = "idle"
  /\ signing' = {}
  /\ UNCHANGED <<ca, sealKeys, deleted, webVars>>
  /\ \E nodeName \in {"db1", BadNodeName}, role \in ValidRoles \cup {BadRole} :
       LET c == Call("GenerateToken", <<>>, nodeName, role, "") IN
       IF ~IsValidDomainName(nodeName)
         THEN Return(p, c, Failed("BadParameter"), FALSE) /\ UNCHANGED <<tokens, nextToken>>
         ELSE IF ~RoleCheck(role)
           THEN Return(p, c, Failed("BadParameter"), FALSE) /\ UNCHANGED <<tokens, nextToken>>
           ELSE \E randOK \in BOOLEAN :
             IF ~randOK
               THEN Return(p, c, Failed("Internal"), FALSE) /\ UNCHANGED <<tokens, nextToken>>
               ELSE /\ nextToken <= MaxTokens
                    /\ nextToken' = nextToken + 1
                    /\ \E upsertOK \in BOOLEAN :
                         IF ~upsertOK
                           THEN Return(p, c, Failed("Internal"), FALSE) /\ UNCHANGED tokens
                           ELSE /\ tokens' = UpsertToken(nextToken, nodeName, role)
                                /\ Return(p, c, [NoRet EXCEPT !.err = "nil",
                                              !.outputToken = JoinTokenRole(nextToken, role)], FALSE)

\* ValidateToken as it would be if it returned the record's domain name for its role
ValidateTokenResult_ReturnsDomain(outputToken, domainName) ==
  LET s == SplitTokenRole(outputToken) IN
  IF s.err # "nil"
    THEN Failed(s.err)
    ELSE LET g == GetToken(s.token) IN
         IF g.err # "nil"
           THEN Failed(g.err)
           ELSE IF g.tok.DomainName # domainName
                  THEN Failed("Mismatch")
                  ELSE [NoRet EXCEPT !.err = "nil", !.role = g.tok.DomainName]

\* what AuthServer.ValidateToken returns in the current state
ValidateTokenResult(outputToken, domainName) ==
  LET s == SplitTokenRole(outputToken) IN
  IF s.err # "nil"
    THEN Failed(s.err)
    ELSE LET g == GetToken(s.token) IN
         IF g.err # "nil"
           THEN Failed(g.err)
           ELSE IF g.tok.DomainName # domainName
                  THEN Failed("Mismatch")
                  ELSE [NoRet EXCEPT !.err = "nil", !.role = g.tok.Role]

\* ValidateToken as it would be if a token that validates were consumed
ValidateToken_Consumes(p) ==
  /\ pc[p] = "idle"
  /\ \E outputToken \in OutputTokens, domainName \in NodeNames :
       LET v == ValidateTokenResult(outputToken, domainName) IN
       /\ tokens' = IF v.err = "nil" THEN StoreDeleteToken(SplitTokenRole(outputToken).token).tokens
                                     ELSE tokens
       /\ Return(p, Call("ValidateToken", outputToken, domainName, "", ""), v, FALSE)
  /\ signing' = {}
  /\ UNCHANGED <<nextToken, ca, sealKeys, deleted, webVars>>

\* AuthServer.ValidateToken
ValidateToken(p) ==
  /\ pc[p] = "idle"
  /\ \E outputToken \in OutputTokens, domainName \in NodeNames :
       Return(p, Call("ValidateToken", outputToken, domainName, "", ""),
              ValidateTokenResult(outputToken, domainName), FALSE)
  /\ signing' = {}
  /\ UNCHANGED <<tokens, nextToken, ca, sealKeys, deleted, webVars>>

\* DeleteToken as it would be if it reported success without removing the record
DeleteTokenResult_KeepsRecord(outputToken) ==
  LET s == SplitTokenRole(outputToken) IN
  IF s.err # "nil"
    THEN [err |-> s.err, tokens |-> tokens, deleted |-> deleted]
    ELSE [err |-> StoreDeleteToken(s.token).err, tokens |-> tokens,
          deleted |-> IF StoreDeleteToken(s.token).err = "nil"
                        THEN deleted \cup {s.token} ELSE deleted]

\* what AuthServer.DeleteToken returns and leaves in the provisioning store
DeleteTokenResult(outputToken) ==
  LET s == SplitTokenRole(outputToken) IN
  IF s.err # "nil"
    THEN [err |-> s.err, tokens |-> tokens, deleted |-> deleted]
    ELSE LET d == StoreDeleteToken(s.token) IN
         [err |-> d.err, tokens |-> d.tokens,
          deleted |-> IF d.err = "nil" THEN deleted \cup {s.token} ELSE deleted]

\* AuthServer.DeleteToken, called directly
DeleteToken(p) ==
  /\ pc[p] = "idle"
  /\ \E outputToken \in OutputTokens :
       LET d == DeleteTokenResult(outputToken) IN
       /\ tokens' = d.tokens
       /\ deleted' = d.deleted
       /\ Return(p, Call("DeleteToken", outputToken, "", "", ""), Failed(d.err), d.err = "nil")
  /\ signing' = {}
  /\ UNCHANGED <<nextToken, ca, sealKeys, webVars>>

\* AuthServer.RegisterUsingToken: the error of the role check, of the split, of
\* GetToken or of the comparison of the fetched record ("nil": none)
RegisterUsingToken_Validate(outputToken, nodename, role) ==
  LET s == SplitTokenRole(outputToken)
      g == GetToken(s.token)
  IN
  IF ~RoleCheck(role)
    THEN "BadParameter"
    ELSE IF s.err # "nil"
      THEN s.err
      ELSE IF g.err # "nil"
        THEN g.err
        ELSE IF g.tok.DomainName # nodename
          THEN "BadParameter"
          ELSE IF g.tok.Role # role
            THEN "BadParameter"
            ELSE "nil"

\* the first step of RegisterUsingToken as it would be if the role were checked
\* after the token record has been read and compared
RegisterUsingToken_GetTokenWith_ChecksRoleLast(p, outputToken, nodename, role) ==
  LET c == Call("RegisterUsingToken", outputToken, nodename, role, "")
      s == SplitTokenRole(outputToken)
      g == GetToken(s.token)
  IN
  /\ pc[p] = "idle"
  /\ signing' = {}
  /\ UNCHANGED <<tokens, nextToken, ca, sealKeys, deleted, webVars>>
  /\ IF s.err # "nil"
       THEN Return(p, c, Failed(s.err), FALSE)
       ELSE IF g.err # "nil"
         THEN Return(p, c, Failed(g.err), FALSE)
         ELSE IF g.tok.DomainName # nodename
           THEN Return(p, c, Failed("BadParameter"), FALSE)
           ELSE IF g.tok.Role # role
             THEN Return(p, c, Failed("BadParameter"), FALSE)
             ELSE IF ~RoleCheck(role)
               THEN Return(p, c, Failed("BadParameter"), FALSE)
               ELSE Goto(p, c, "rut_keypair", NoLocal)

\* the first step of RegisterUsingToken as it would be without the comparison of
\* the record's role
RegisterUsingToken_GetTokenWith_SkipsRole(p, outputToken, nodename, role) ==
  LET c == Call("RegisterUsingToken", outputToken, nodename, role, "")
      s == SplitTokenRole(outputToken)
      g == GetToken(s.token)
  IN
  /\ pc[p] = "idle"
  /\ signing' = {}
  /\ UNCHANGED <<tokens, nextToken, ca, sealKeys, deleted, webVars>>
  /\ IF ~RoleCheck(role)
       THEN Return(p, c, Failed("BadParameter"), FALSE)
       ELSE IF s.err # "nil"
         THEN Return(p, c, Failed(s.err), FALSE)
         ELSE IF g.err # "nil"
           THEN Return(p, c, Failed(g.err), FALSE)
           ELSE IF g.tok.DomainName # nodename
             THEN Return(p, c, Failed("BadParameter"), FALSE)
             ELSE Goto(p, c, "rut_keypair", NoLocal)

\* AuthServer.RegisterUsingToken(outputToken, nodename, role), up to the comparison
\* of the fetched record
RegisterUsingToken_GetTokenWith(p, outputToken, nodename, role) ==
  LET c == Call("RegisterUsingToken", outputToken, nodename, role, "")
      e == RegisterUsingToken_Validate(outputToken, nodename, role)
  IN
  /\ pc[p] = "idle"
  /\ signing' = {}
  /\ UNCHANGED <<tokens, nextToken, ca, sealKeys, deleted, webVars>>
  /\ IF e # "nil"
       THEN Return(p, c, Failed(e), FALSE)
       ELSE Goto(p, c, "rut_keypair", NoLocal)

RegisterUsingToken_GetToken(p) ==
  \E outputToken \in OutputTokens, nodename \in NodeNames, role \in ValidRoles \cup {BadRole} :
    RegisterUsingToken_GetTokenWith(p, outputToken, nodename, role)

\* AuthServer.RegisterUsingToken: k, pub, err := s.GenerateKeyPair("")
RegisterUsingToken_GenerateKeyPair(p) ==
  /\ pc[p] = "rut_keypair"
  /\ \E k \in KeyNames, ok \in BOOLEAN :
       LET kp == GenerateKeyPair(k, ok) IN
       IF kp.err # "nil"
         THEN Return(p, call[p], Failed(kp.err), FALSE)
         ELSE Goto(p, call[p], "rut_cert", [local[p] EXCEPT !.k = kp.priv, !.pub = kp.pub])
  /\ signing' = {}
  /\ UNCHANGED <<tokens, nextToken, ca, sealKeys, deleted, webVars>>

\* the node identity as it would be with the two parts the other way round
FQDN_Swapped(nodename) == Hostname \o "." \o nodename

\* fmt.Sprintf("%s.%s", nodename, s.Hostname)
FQDN(nodename) == nodename \o "." \o Hostname

\* the certificate step of RegisterUsingToken as it would be if the token were
\* deleted before the certificate is issued
RegisterUsingToken_GenerateHostCert_DeletesFirst(p) ==
  /\ pc[p] = "rut_cert"
  /\ \E ok \in BOOLEAN :
       LET d == DeleteTokenResult(call[p].outputToken)
           c == GenerateHostCert(local[p].pub, FQDN(call[p].name), Hostname, call[p].role, 0, ok)
       IN
       /\ signing' = c.calls
       /\ tokens' = d.tokens
       /\ deleted' = d.deleted
       /\ IF c.err # "nil"
            THEN Return(p, call[p], Failed(c.err), FALSE)
            ELSE Goto(p, call[p], "rut_delete", [local[p] EXCEPT !.cert = c.cert])
  /\ UNCHANGED <<nextToken, ca, sealKeys, webVars>>

\* AuthServer.RegisterUsingToken: c, err := s.GenerateHostCert(pub, fqdn, s.Hostname, role, 0)
RegisterUsingToken_GenerateHostCert(p) ==
  /\ pc[p] = "rut_cert"
  /\ \E ok \in BOOLEAN :
       LET c == GenerateHostCert(local[p].pub, FQDN(call[p].name), Hostname, call[p].role, 0, ok) IN
       /\ signing' = c.calls
       /\ IF c.err # "nil"
            THEN Return(p, call[p], Failed(c.err), FALSE)
            ELSE Goto(p, call[p], "rut_delete", [local[p] EXCEPT !.cert = c.cert])
  /\ UNCHANGED <<tokens, nextToken, ca, sealKeys, deleted, webVars>>

\* the last step of RegisterUsingToken as it would be if the error of DeleteToken
\* were dropped
RegisterUsingToken_DeleteToken_IgnoresError(p) ==
  /\ pc[p] = "rut_delete"
  /\ LET d == DeleteTokenResult(call[p].outputToken) IN
     /\ tokens' = d.tokens
     /\ deleted' = d.deleted
     /\ Return(p, call[p], [NoRet EXCEPT !.err = "nil",
                       !.keys = [Key |-> local[p].k, Cert |-> local[p].cert]], d.err = "nil")
  /\ signing' = {}
  /\ UNCHANGED <<nextToken, ca, sealKeys, webVars>>

\* AuthServer.RegisterUsingToken: s.DeleteToken(outputToken), then return keys
RegisterUsingToken_DeleteToken(p) ==
  /\ pc[p] = "rut_delete"
  /\ LET d == DeleteTokenResult(call[p].outputToken) IN
     /\ tokens' = d.tokens
     /\ deleted' = d.deleted
     /\ IF d.err # "nil"
          THEN Return(p, call[p], Failed(d.err), FALSE)
          ELSE Return(p, call[p], [NoRet EXCEPT !.err = "nil",
                            !.keys = [Key |-> local[p].k, Cert |-> local[p].cert]], TRUE)
  /\ signing' = {}
  /\ UNCHANGED <<nextToken, ca, sealKeys, webVars>>

\* the provisioning store drops a record whose TTL has run out
ExpireToken ==
  /\ \E token \in RawTokens :
       /\ tokens[token].present
       /\ tokens' = [tokens EXCEPT ![token] = NoToken]
  /\ last' = NoEvent
  /\ signing' = {}
  /\ UNCHANGED <<nextToken, ca, sealKeys, pc, call, local, deleted, outcome, faulted, webVars>>

-----------------------------------------------------------------------------
(* Peer-Authority Bootstrap *)

\* the local sign key of the key-management store, and its public half
SignKey == [priv |-> "signPriv", pub |-> "signPub"]
Public(key) == key.pub

\* the comparison of RegisterNewAuthServer as it would be if the role tag of the
\* output token were taken for the role of the record
RegisterNewAuthServer_Validate_TrustsTag(domainName, outputToken) ==
  LET s == SplitTokenRole(outputToken)
      g == GetToken(s.token)
  IN
  IF s.err # "nil"
    THEN s.err
    ELSE IF g.err # "nil"
      THEN g.err
      ELSE IF g.tok.DomainName # domainName
        THEN "AccessDenied"
        ELSE IF s.role # RoleAuth
          THEN "AccessDenied"
          ELSE "nil"

\* AuthServer.RegisterNewAuthServer: the error of the split, of GetToken or of the
\* comparison of the fetched record ("nil": none)
RegisterNewAuthServer_Validate(domainName, outputToken) ==
  LET s == SplitTokenRole(outputToken)
      g == GetToken(s.token)
  IN
  IF s.err # "nil"
    THEN s.err
    ELSE IF g.err # "nil"
      THEN g.err
      ELSE IF g.tok.DomainName # domainName
        THEN "AccessDenied"
        ELSE IF g.tok.Role # RoleAuth
          THEN "AccessDenied"
          ELSE "nil"

\* the first step of RegisterNewAuthServer as it would be if a record of any role
\* were accepted
RegisterNewAuthServer_GetToken_AnyRole(p) ==
  /\ pc[p] = "idle"
  /\ signing' = {}
  /\ UNCHANGED <<tokens, nextToken, ca, sealKeys, deleted, webVars>>
  /\ \E domainName \in NodeNames, outputToken \in OutputTokens, publicSealKey \in SealKeys :
       LET c == Call("RegisterNewAuthServer", outputToken, domainName, "", publicSealKey)
           s == SplitTokenRole(outputToken)
           g == GetToken(s.token)
       IN
       IF s.err # "nil"
         THEN Return(p, c, Failed(s.err), FALSE)
         ELSE IF g.err # "nil"
           THEN Return(p, c, Failed(g.err), FALSE)
           ELSE IF g.tok.DomainName # domainName
             THEN Return(p, c, Failed("AccessDenied"), FALSE)
             ELSE Goto(p, c, "rna_delete", NoLocal)

\* AuthServer.RegisterNewAuthServer, up to the comparison of the fetched record
RegisterNewAuthServer_GetToken(p) ==
  /\ pc[p] = "idle"
  /\ signing' = {}
  /\ UNCHANGED <<tokens, nextToken, ca, sealKeys, deleted, webVars>>
  /\ \E domainName \in NodeNames, outputToken \in OutputTokens, publicSealKey \in SealKeys :
       LET c == Call("RegisterNewAuthServer", outputToken, domainName, "", publicSealKey)
           e == RegisterNewAuthServer_Validate(domainName, outputToken)
       IN
       IF e # "nil"
         THEN Return(p, c, Failed(e), FALSE)
         ELSE Goto(p, c, "rna_delete", NoLocal)

\* AuthServer.RegisterNewAuthServer: s.DeleteToken(outputToken)
RegisterNewAuthServer_DeleteToken(p) ==
  /\ pc[p] = "rna_delete"
  /\ LET d == DeleteTokenResult(call[p].outputToken) IN
     /\ tokens' = d.tokens
     /\ deleted' = d.deleted
     /\ IF d.err # "nil"
          THEN Return(p, call[p], Failed(d.err), FALSE)
          ELSE Goto(p, call[p], "rna_seal", [local[p] EXCEPT !.consumed = TRUE])
  /\ signing' = {}
  /\ UNCHANGED <<nextToken, ca, sealKeys, webVars>>

\* AuthServer.RegisterNewAuthServer: s.BkKeysService.AddSealKey(publicSealKey)
RegisterNewAuthServer_AddSealKey(p) ==
  /\ pc[p] = "rna_seal"
  /\ \E ok \in BOOLEAN :
       IF ~ok
         THEN Return(p, call[p], Failed("Internal"), local[p].consumed) /\ UNCHANGED sealKeys
         ELSE /\ sealKeys' = sealKeys \cup {call[p].key}
              /\ Goto(p, call[p], "rna_sign", local[p])
  /\ signing' = {}
  /\ UNCHANGED <<tokens, nextToken, ca, deleted, webVars>>

\* AuthServer.RegisterNewAuthServer: s.BkKeysService.GetSignKey(), return localKey.Public()
RegisterNewAuthServer_GetSignKey(p) ==
  /\ pc[p] = "rna_sign"
  /\ \E ok \in BOOLEAN :
       IF ~ok
         THEN Return(p, call[p], Failed("Internal"), local[p].consumed)
         ELSE Return(p, call[p], [NoRet EXCEPT !.err = "nil", !.key = Public(SignKey)],
                     local[p].consumed)
  /\ signing' = {}
  /\ UNCHANGED <<tokens, nextToken, ca, sealKeys, deleted, webVars>>

-----------------------------------------------------------------------------
(* The join-token protocol and the peer bootstrap, called concurrently *)

\* the CA records a store may hold: none, one with no signing key, one with keys
CARecords ==
  { [present |-> FALSE, keys |-> <<>>],
    [present |-> TRUE, keys |-> <<>>],
    [present |-> TRUE, keys |-> <<"caKey1">>],
    [present |-> TRUE, keys |-> <<"caKey2", "caKey1">>] }

Init ==
  /\ tokens = [t \in RawTokens |-> NoToken]
  /\ nextToken = 1
  /\ ca = [t \in {HostCA, UserCA} |-> [present |-> TRUE, keys |-> <<"caKey1">>]]
  /\ sealKeys = {}
  /\ signing = {}
  /\ pc = [p \in Procs |-> "idle"]
  /\ call = [p \in Procs |-> NoCall]
  /\ local = [p \in Procs |-> NoLocal]
  /\ last = NoEvent
  /\ deleted = {}
  /\ faulted = {}
  /\ sessions = [k \in UserNames \X SessionIDs |-> NoStored]
  /\ nextSession = 1
  /\ now = 0
  /\ outcome = <<>>

Next ==
  \/ \E p \in Procs : GenerateToken(p)
  \/ \E p \in Procs : ValidateToken(p)
  \/ \E p \in Procs : DeleteToken(p)
  \/ \E p \in Procs : RegisterUsingToken_GetToken(p)
  \/ \E p \in Procs : RegisterUsingToken_GenerateKeyPair(p)
  \/ \E p \in Procs : RegisterUsingToken_GenerateHostCert(p)
  \/ \E p \in Procs : RegisterUsingToken_DeleteToken(p)
  \/ \E p \in Procs : RegisterNewAuthServer_GetToken(p)
  \/ \E p \in Procs : RegisterNewAuthServer_DeleteToken(p)
  \/ \E p \in Procs : RegisterNewAuthServer_AddSealKey(p)
  \/ \E p \in Procs : RegisterNewAuthServer_GetSignKey(p)
  \/ ExpireToken

Spec == Init /\ [][Next]_vars

-----------------------------------------------------------------------------
(* N callers redeem one token concurrently *)

NumCallers == 2
Callers == 1..NumCallers

\* the token of the race: the state GenerateToken(RaceNode, RaceRole, ttl) leaves
RaceNode == "db1"
RaceRole == "Node"
RaceToken == JoinTokenRole(1, RaceRole)

InitRace ==
  /\ tokens = [t \in RawTokens |->
                 IF t = 1 THEN [present |-> TRUE, DomainName |-> RaceNode, Role |-> RaceRole]
                          ELSE NoToken]
  /\ nextToken = 2
  /\ ca = [t \in {HostCA, UserCA} |-> [present |-> TRUE, keys |-> <<"caKey1">>]]
  /\ sealKeys = {}
  /\ signing = {}
  /\ pc = [p \in Callers |-> "idle"]
  /\ call = [p \in Callers |-> NoCall]
  /\ local = [p \in Callers |-> NoLocal]
  /\ last = NoEvent
  /\ deleted = {}
  /\ faulted = {}
  /\ sessions = [k \in UserNames \X SessionIDs |-> NoStored]
  /\ nextSession = 1
  /\ now = 0
  /\ outcome = [p \in Callers |-> "none"]

\* caller p makes its one call
RaceRegister(p) ==
  /\ outcome[p] = "none"
  /\ RegisterUsingToken_GetTokenWith(p, RaceToken, RaceNode, RaceRole)

NextRace ==
  \/ \E p \in Callers : RaceRegister(p)
  \/ \E p \in Callers : RegisterUsingToken_GenerateKeyPair(p)
  \/ \E p \in Callers : RegisterUsingToken_GenerateHostCert(p)
  \/ \E p \in Callers : RegisterUsingToken_DeleteToken(p)

SpecRace == InitRace /\ [][NextRace]_vars

-----------------------------------------------------------------------------
(* The Certificate Authority Facade, called directly while the CA store changes *)

\* AuthServer.GenerateHostCert, called directly
GenerateHostCertCall(p) ==
  /\ pc[p] = "idle"
  /\ \E key \in PublicKeys, hostname \in NodeNames, role \in ValidRoles, ok \in BOOLEAN :
       LET c == GenerateHostCert(key, hostname, Hostname, role, 0, ok) IN
       /\ signing' = c.calls
       /\ Return(p, Call("GenerateHostCert", <<>>, hostname, role, key),
                 [NoRet EXCEPT !.err = c.err, !.keys = [Key |-> "", Cert |-> c.cert]], FALSE)
  /\ UNCHANGED <<tokens, nextToken, ca, sealKeys, deleted, webVars>>

\* AuthServer.GenerateUserCert, called directly
GenerateUserCertCall(p) ==
  /\ pc[p] = "idle"
  /\ \E key \in PublicKeys, username \in UserNames, ok \in BOOLEAN :
       LET c == GenerateUserCert(key, username, 0, ok) IN
       /\ signing' = c.calls
       /\ Return(p, Call("GenerateUserCert", <<>>, username, "", key),
                 [NoRet EXCEPT !.err = c.err, !.keys = [Key |-> "", Cert |-> c.cert]], FALSE)
  /\ UNCHANGED <<tokens, nextToken, ca, sealKeys, deleted, webVars>>

\* CAService.UpsertCertAuthority and DeleteCertAuthority, by an administrator
SetCertAuthority ==
  /\ \E type \in {HostCA, UserCA}, rec \in CARecords :
       /\ ca[type] # rec
       /\ ca' = [ca EXCEPT ![type] = rec]
  /\ signing' = {}
  /\ last' = NoEvent
  /\ UNCHANGED <<tokens, nextToken, sealKeys, pc, call, local, deleted, outcome, faulted, webVars>>

InitCA ==
  /\ tokens = [t \in RawTokens |-> NoToken]
  /\ nextToken = 1
  /\ ca \in [{HostCA, UserCA} -> CARecords]
  /\ sealKeys = {}
  /\ signing = {}
  /\ pc = [p \in Procs |-> "idle"]
  /\ call = [p \in Procs |-> NoCall]
  /\ local = [p \in Procs |-> NoLocal]
  /\ last = NoEvent
  /\ deleted = {}
  /\ faulted = {}
  /\ sessions = [k \in UserNames \X SessionIDs |-> NoStored]
  /\ nextSession = 1
  /\ now = 0
  /\ outcome = <<>>

NextCA ==
  \/ \E p \in Procs : GenerateHostCertCall(p)
  \/ \E p \in Procs : GenerateUserCertCall(p)
  \/ SetCertAuthority

SpecCA == InitCA /\ [][NextCA]_vars

-----------------------------------------------------------------------------
(* Session Manager *)

\* WebSessionTTL = 10 * time.Minute
WebSessionTTL == 10

\* clockwork.Clock.Now, time.Time.UTC and time.Time.Add
ClockNow == [t |-> now, loc |-> "Local"]
UTC(time) == [time EXCEPT !.loc = "UTC"]
Add(time, d) == [time EXCEPT !.t = time.t + d]

\* the password of a user, as the credential check knows it
PasswordOf(user) == "pw-" \o user
Passwords == {PasswordOf(u) : u \in UserNames} \cup {"wrong"}

\* WebService.CheckPasswordWOToken
CheckPasswordWOToken(user, password) ==
  IF password = PasswordOf(user) THEN "nil" ELSE "BadParameter"

\* WebService.GetUser; ok: whether the user directory answers
GetUser(userName, ok) ==
  IF ok THEN [err |-> "nil", user |-> userName] ELSE [err |-> "NotFound", user |-> ""]

\* WebService.GetWebSession
StoreGetWebSession(user, id) ==
  IF sessions[<<user, id>>].present
    THEN [err |-> "nil", ws |-> sessions[<<user, id>>].ws]
    ELSE [err |-> "NotFound", ws |-> NoWS]

\* WebService.UpsertWebSession: the record is kept until now + ttl
StoreUpsertWebSession(user, id, ws, ttl) ==
  [sessions EXCEPT ![<<user, id>>] = [present |-> TRUE, ws |-> ws, deadline |-> now + ttl]]

\* WebService.DeleteWebSession
StoreDeleteWebSession(user, id) ==
  IF sessions[<<user, id>>].present
    THEN [err |-> "nil", sessions |-> [sessions EXCEPT ![<<user, id>>] = NoStored]]
    ELSE [err |-> "NotFound", sessions |-> sessions]

\* Authority.GetNewKeyPairFromPool: a pre-generated pair, or an error
GetNewKeyPairFromPool(ok) ==
  IF ok
    THEN [err |-> "nil", priv |-> "priv-pool", pub |-> "pub-pool"]
    ELSE [err |-> "Internal", priv |-> "", pub |-> ""]

\* what can go wrong in NewWebSession besides the CA lookup: the random source, the
\* key pool, the Signing Backend, the user directory
Faults == {"none", "rand", "pool", "sign", "user"}

\* NewWebSession as it would be if the expiry were taken in local time
NewWebSession_ExpiresLocal(userName, n, fault) ==
  IF fault = "rand"
    THEN [err |-> "Internal", sess |-> NoSession, calls |-> {}]
    ELSE LET kp == GetNewKeyPairFromPool(fault # "pool") IN
    IF kp.err # "nil"
      THEN [err |-> kp.err, sess |-> NoSession, calls |-> {}]
      ELSE LET g == GetCertAuthority(UserCA) IN
      IF g.err # "nil"
        THEN [err |-> g.err, sess |-> NoSession, calls |-> {}]
        ELSE LET f == FirstSigningKey(g.ca) IN
        IF f.err # "nil"
          THEN [err |-> f.err, sess |-> NoSession, calls |-> {}]
          ELSE LET c == AuthorityGenerateUserCert(f.key, kp.pub, userName, WebSessionTTL,
                                                  fault # "sign") IN
          IF c.err # "nil"
            THEN [err |-> c.err, sess |-> NoSession, calls |-> c.calls]
            ELSE LET u == GetUser(userName, fault # "user") IN
            IF u.err # "nil"
              THEN [err |-> u.err, sess |-> NoSession, calls |-> c.calls]
              ELSE [err |-> "nil",
                    sess |-> [ID |-> n, User |-> u.user,
                              WS |-> [Priv |-> kp.priv, Pub |-> c.cert,
                                      Expires |-> Add(ClockNow, WebSessionTTL),
                                      BearerToken |-> n]],
                    calls |-> c.calls]

\* AuthServer.NewWebSession: the session ID and bearer token drawn are n
NewWebSession(userName, n, fault) ==
  IF fault = "rand"
    THEN [err |-> "Internal", sess |-> NoSession, calls |-> {}]
    ELSE LET kp == GetNewKeyPairFromPool(fault # "pool") IN
    IF kp.err # "nil"
      THEN [err |-> kp.err, sess |-> NoSession, calls |-> {}]
      ELSE LET g == GetCertAuthority(UserCA) IN
      IF g.err # "nil"
        THEN [err |-> g.err, sess |-> NoSession, calls |-> {}]
        ELSE LET f == FirstSigningKey(g.ca) IN
        IF f.err # "nil"
          THEN [err |-> f.err, sess |-> NoSession, calls |-> {}]
          ELSE LET c == AuthorityGenerateUserCert(f.key, kp.pub, userName, WebSessionTTL,
                                                  fault # "sign") IN
          IF c.err # "nil"
            THEN [err |-> c.err, sess |-> NoSession, calls |-> c.calls]
            ELSE LET u == GetUser(userName, fault # "user") IN
            IF u.err # "nil"
              THEN [err |-> u.err, sess |-> NoSession, calls |-> c.calls]
              ELSE [err |-> "nil",
                    sess |-> [ID |-> n, User |-> u.user,
                              WS |-> [Priv |-> kp.priv, Pub |-> c.cert,
                                      Expires |-> Add(UTC(ClockNow), WebSessionTTL),
                                      BearerToken |-> n]],
                    calls |-> c.calls]

\* the redaction as it would be if it left the private key in place
ClearPriv_KeepsKey(ws) == ws

\* sess.WS.Priv = nil in SignIn and CreateWebSession, sess.Priv = nil in GetWebSessionInfo
ClearPriv(ws) == [ws EXCEPT !.Priv = ""]

\* AuthServer.SignIn: s.CheckPasswordWOToken(user, password)
SignIn_CheckPassword(p) ==
  /\ pc[p] = "idle"
  /\ signing' = {}
  /\ UNCHANGED <<tokenVars, ca, webVars>>
  /\ \E user \in UserNames, password \in Passwords :
       LET c == Call("SignIn", <<>>, user, "", password) IN
       IF CheckPasswordWOToken(user, password) # "nil"
         THEN Return(p, c, Failed(CheckPasswordWOToken(user, password)), FALSE)
         ELSE Goto(p, c, "si_new", NoLocal)

\* the NewWebSession step of SignIn and of CreateWebSession
NewWebSessionStep(p, next) ==
  /\ nextSession <= MaxSessions
  /\ \E fault \in Faults :
       LET r == NewWebSession(call[p].name, nextSession, fault) IN
       /\ signing' = r.calls
       /\ IF r.err # "nil"
            THEN Return(p, call[p], Failed(r.err), FALSE) /\ UNCHANGED nextSession
            ELSE /\ nextSession' = nextSession + 1
                 /\ Goto(p, call[p], next, [local[p] EXCEPT !.sess = r.sess])
  /\ UNCHANGED <<tokenVars, ca, sessions, now>>

\* the UpsertWebSession step as it would be if a renewal replaced the previous session
UpsertWebSessionStep_ReplacesPrevious(p) ==
  /\ signing' = {}
  /\ \E ok \in BOOLEAN :
       IF ~ok
         THEN Return(p, call[p], Failed("Internal"), FALSE) /\ UNCHANGED sessions
         ELSE /\ sessions' =
                   [k \in DOMAIN sessions |->
                      IF call[p].op = "CreateWebSession" /\ k = <<call[p].name, call[p].outputToken[1]>>
                        THEN NoStored
                        ELSE StoreUpsertWebSession(call[p].name, local[p].sess.ID,
                                                   local[p].sess.WS, WebSessionTTL)[k]]
              /\ Return(p, call[p], [NoRet EXCEPT !.err = "nil",
                                       !.session = [local[p].sess EXCEPT
                                                      !.WS = ClearPriv(local[p].sess.WS)]], FALSE)
  /\ UNCHANGED <<tokenVars, ca, nextSession, now>>

\* the UpsertWebSession step as it would be if a store that fails kept the record
UpsertWebSessionStep_PersistsOnError(p) ==
  /\ signing' = {}
  /\ sessions' = StoreUpsertWebSession(call[p].name, local[p].sess.ID,
                                       local[p].sess.WS, WebSessionTTL)
  /\ \E ok \in BOOLEAN :
       IF ~ok
         THEN Return(p, call[p], Failed("Internal"), FALSE)
         ELSE Return(p, call[p], [NoRet EXCEPT !.err = "nil",
                                    !.session = [local[p].sess EXCEPT
                                                   !.WS = ClearPriv(local[p].sess.WS)]], FALSE)
  /\ UNCHANGED <<tokenVars, ca, nextSession, now>>

\* the UpsertWebSession step of SignIn and of CreateWebSession, up to the return;
\* ok: whether the web-session store answers
UpsertWebSessionStep(p) ==
  /\ signing' = {}
  /\ \E ok \in BOOLEAN :
       IF ~ok
         THEN Return(p, call[p], Failed("Internal"), FALSE) /\ UNCHANGED sessions
         ELSE /\ sessions' = StoreUpsertWebSession(call[p].name, local[p].sess.ID,
                                                   local[p].sess.WS, WebSessionTTL)
              /\ Return(p, call[p], [NoRet EXCEPT !.err = "nil",
                                       !.session = [local[p].sess EXCEPT
                                                      !.WS = ClearPriv(local[p].sess.WS)]], FALSE)
  /\ UNCHANGED <<tokenVars, ca, nextSession, now>>

\* AuthServer.SignIn: s.NewWebSession(user)
SignIn_NewWebSession(p) ==
  /\ pc[p] = "si_new"
  /\ NewWebSessionStep(p, "si_upsert")

\* AuthServer.SignIn: s.UpsertWebSession(user, sess, WebSessionTTL), redact, return
SignIn_UpsertWebSession(p) ==
  /\ pc[p] = "si_upsert"
  /\ UpsertWebSessionStep(p)

\* what AuthServer.GetWebSession returns in the current state
GetWebSessionResult(userName, id, userOK) ==
  LET w == StoreGetWebSession(userName, id) IN
  IF w.err # "nil"
    THEN Failed(w.err)
    ELSE LET u == GetUser(userName, userOK) IN
         IF u.err # "nil"
           THEN Failed(u.err)
           ELSE [NoRet EXCEPT !.err = "nil",
                              !.session = [ID |-> id, User |-> u.user, WS |-> w.ws]]

\* what AuthServer.GetWebSessionInfo returns in the current state
GetWebSessionInfoResult(userName, id, userOK) ==
  LET w == StoreGetWebSession(userName, id) IN
  IF w.err # "nil"
    THEN Failed(w.err)
    ELSE LET u == GetUser(userName, userOK) IN
         IF u.err # "nil"
           THEN Failed(u.err)
           ELSE [NoRet EXCEPT !.err = "nil",
                              !.session = [ID |-> id, User |-> u.user,
                                           WS |-> ClearPriv(w.ws)]]

\* the first step of CreateWebSession as it would be if the error of GetWebSession
\* were dropped
CreateWebSession_GetWebSession_IgnoresError(p) ==
  /\ pc[p] = "idle"
  /\ signing' = {}
  /\ UNCHANGED <<tokenVars, ca, webVars>>
  /\ \E user \in UserNames, prevSessionID \in SessionIDs, userOK \in BOOLEAN :
       Goto(p, Call("CreateWebSession", <<prevSessionID>>, user, "", ""), "cws_new", NoLocal)

\* AuthServer.CreateWebSession: s.GetWebSession(user, prevSessionID)
CreateWebSession_GetWebSession(p) ==
  /\ pc[p] = "idle"
  /\ signing' = {}
  /\ UNCHANGED <<tokenVars, ca, webVars>>
  /\ \E user \in UserNames, prevSessionID \in SessionIDs, userOK \in BOOLEAN :
       LET c == Call("CreateWebSession", <<prevSessionID>>, user, "", "")
           g == GetWebSessionResult(user, prevSessionID, userOK)
       IN
       IF g.err # "nil"
         THEN Return(p, c, Failed(g.err), FALSE)
         ELSE Goto(p, c, "cws_new", NoLocal)

\* AuthServer.CreateWebSession: s.NewWebSession(user)
CreateWebSession_NewWebSession(p) ==
  /\ pc[p] = "cws_new"
  /\ NewWebSessionStep(p, "cws_upsert")

\* AuthServer.CreateWebSession: s.UpsertWebSession(user, sess, WebSessionTTL), redact, return
CreateWebSession_UpsertWebSession(p) ==
  /\ pc[p] = "cws_upsert"
  /\ UpsertWebSessionStep(p)

\* AuthServer.GetWebSession
GetWebSession(p) ==
  /\ pc[p] = "idle"
  /\ signing' = {}
  /\ UNCHANGED <<tokenVars, ca, webVars>>
  /\ \E userName \in UserNames, id \in SessionIDs, userOK \in BOOLEAN :
       Return(p, Call("GetWebSession", <<id>>, userName, "", ""),
              GetWebSessionResult(userName, id, userOK), FALSE)

\* GetWebSessionInfo as it would be if clearing the key reached the stored record
GetWebSessionInfo_ClearsStored(p) ==
  /\ pc[p] = "idle"
  /\ signing' = {}
  /\ UNCHANGED <<tokenVars, ca, nextSession, now>>
  /\ \E userName \in UserNames, id \in SessionIDs, userOK \in BOOLEAN :
       /\ sessions' = IF sessions[<<userName, id>>].present
                        THEN [sessions EXCEPT ![<<userName, id>>].ws = ClearPriv(@)]
                        ELSE sessions
       /\ Return(p, Call("GetWebSessionInfo", <<id>>, userName, "", ""),
                 GetWebSessionInfoResult(userName, id, userOK), FALSE)

\* AuthServer.GetWebSessionInfo
GetWebSessionInfo(p) ==
  /\ pc[p] = "idle"
  /\ signing' = {}
  /\ UNCHANGED <<tokenVars, ca, webVars>>
  /\ \E userName \in UserNames, id \in SessionIDs, userOK \in BOOLEAN :
       Return(p, Call("GetWebSessionInfo", <<id>>, userName, "", ""),
              GetWebSessionInfoResult(userName, id, userOK), FALSE)

\* DeleteWebSession as it would be if the record were left in the store
DeleteWebSession_KeepsRecord(p) ==
  /\ pc[p] = "idle"
  /\ signing' = {}
  /\ UNCHANGED <<tokenVars, ca, webVars>>
  /\ \E user \in UserNames, id \in SessionIDs :
       Return(p, Call("DeleteWebSession", <<id>>, user, "", ""),
              Failed(StoreDeleteWebSession(user, id).err), FALSE)

\* AuthServer.DeleteWebSession
DeleteWebSession(p) ==
  /\ pc[p] = "idle"
  /\ signing' = {}
  /\ UNCHANGED <<tokenVars, ca, nextSession, now>>
  /\ \E user \in UserNames, id \in SessionIDs :
       LET d == StoreDeleteWebSession(user, id) IN
       /\ sessions' = d.sessions
       /\ Return(p, Call("DeleteWebSession", <<id>>, user, "", ""), Failed(d.err), FALSE)

\* the clock advances
Tick ==
  /\ now + WebSessionTTL <= MaxClock
  /\ now' = now + WebSessionTTL
  /\ signing' = {}
  /\ last' = NoEvent
  /\ UNCHANGED <<tokenVars, ca, pc, call, local, outcome, faulted, sessions, nextSession>>

\* the web-session store drops a record whose TTL has run out
ExpireWebSession ==
  /\ \E key \in UserNames \X SessionIDs :
       /\ sessions[key].present
       /\ sessions[key].deadline <= now
       /\ sessions' = [sessions EXCEPT ![key] = NoStored]
  /\ signing' = {}
  /\ last' = NoEvent
  /\ UNCHANGED <<tokenVars, ca, pc, call, local, outcome, faulted, nextSession, now>>

InitWeb ==
  /\ tokens = [t \in RawTokens |-> NoToken]
  /\ nextToken = 1
  /\ ca \in [{HostCA, UserCA} -> CARecords]
  /\ ca[HostCA] = [present |-> TRUE, keys |-> <<"caKey1">>]
  /\ Len(ca[UserCA].keys) <= 1
  /\ sealKeys = {}
  /\ signing = {}
  /\ pc = [p \in Procs |-> "idle"]
  /\ call = [p \in Procs |-> NoCall]
  /\ local = [p \in Procs |-> NoLocal]
  /\ last = NoEvent
  /\ deleted = {}
  /\ faulted = {}
  /\ sessions = [k \in UserNames \X SessionIDs |-> NoStored]
  /\ nextSession = 1
  /\ now = 0
  /\ outcome = <<>>

NextWeb ==
  \/ \E p \in Procs : SignIn_CheckPassword(p)
  \/ \E p \in Procs : SignIn_NewWebSession(p)
  \/ \E p \in Procs : SignIn_UpsertWebSession(p)
  \/ \E p \in Procs : CreateWebSession_GetWebSession(p)
  \/ \E p \in Procs : CreateWebSession_NewWebSession(p)
  \/ \E p \in Procs : CreateWebSession_UpsertWebSession(p)
  \/ \E p \in Procs : GetWebSession(p)
  \/ \E p \in Procs : GetWebSessionInfo(p)
  \/ \E p \in Procs : DeleteWebSession(p)
  \/ Tick
  \/ ExpireWebSession

SpecWeb == InitWeb /\ [][NextWeb]_vars

-----------------------------------------------------------------------------
(* Properties *)

\* the raw token an output token of a call names (0: the output token is malformed)
RawOf(outputToken) == SplitTokenRole(outputToken).token

\* the last step was the return of a call of method op
Returned(op) == last.proc # 0 /\ last.call.op = op

\* the callers of a race have all returned
RaceDone == DOMAIN outcome # {} /\ \A p \in DOMAIN outcome : outcome[p] # "none"

Redeemers == {p \in DOMAIN outcome : outcome[p] = "nil"}

\* C1: of N >= 2 concurrent RegisterUsingToken calls with the same valid output token
\* and the matching node name and role, at most one ever returns PackedKeys, and once
\* all have returned without a failure of the Signing Backend exactly one has
\* succeeded and each of the other N-1 has returned an error, in every interleaving
\* of their steps.
C1_ExactlyOneRedeems ==
  /\ Cardinality(Redeemers) <= 1
  /\ (RaceDone /\ \A p \in DOMAIN outcome : outcome[p] # "Internal") =>
       /\ Cardinality(Redeemers) = 1
       /\ Cardinality(DOMAIN outcome) >= 2
       /\ \A p \in DOMAIN outcome \ Redeemers : outcome[p] = "NotFound"

\* all callers have returned, one with keys and every other with NotFound
C1_Witness ==
  /\ RaceDone
  /\ Cardinality(Redeemers) = 1
  /\ \A p \in DOMAIN outcome \ Redeemers : outcome[p] = "NotFound"
  /\ Returned("RegisterUsingToken") /\ last.ret.err = "NotFound"

\* caller p has fetched and validated the record of raw token t and not yet deleted it
PassedValidation(p, t) ==
  /\ pc[p] \in {"rut_keypair", "rut_cert", "rut_delete", "rna_delete"}
  /\ RawOf(call[p].outputToken) = t

\* C2: no two redemption calls (RegisterUsingToken or RegisterNewAuthServer) on the
\* same token are ever both past the fetch-and-validate step while neither has yet
\* deleted the token.
C2_NoValidationWindow ==
  \A t \in RawTokens : \A p, q \in DOMAIN pc :
    (PassedValidation(p, t) /\ PassedValidation(q, t)) => p = q

\* C3: once a DeleteToken on a token has succeeded, no ValidateToken and no
\* RegisterUsingToken on that token returns without error, whatever the other
\* arguments: every call that returns after the deletion fails.
C3_DeletedNeverValidates ==
  [][(last'.proc # 0 /\ last'.call.op \in {"ValidateToken", "RegisterUsingToken"}
        /\ last'.ret.err = "nil")
       => RawOf(last'.call.outputToken) \notin deleted]_vars

\* a RegisterUsingToken on a deleted token has just failed
C3_Witness ==
  /\ Returned("RegisterUsingToken")
  /\ RawOf(last.call.outputToken) \in deleted
  /\ last.ret.err = "NotFound"

\* the record of raw token t is there and bound to this node name and role
Matches(t, nodename, role) ==
  /\ t \in RawTokens
  /\ tokens[t].present
  /\ tokens[t].DomainName = nodename
  /\ tokens[t].Role = role

\* the host certificate RegisterUsingToken asks for: for nodename "." trust domain,
\* against the local trust domain, for the role, with TTL zero, signed with the
\* first signing key of the host CA
IsJoinCert(cert, nodename, role) ==
  /\ cert.kind = HostCA
  /\ cert.id = nodename \o "." \o Hostname
  /\ cert.authDomain = Hostname
  /\ cert.role = role
  /\ cert.ttl = 0
  /\ cert.pkey = ca[HostCA].keys[1]

\* C4: a RegisterUsingToken(outputToken, n, r) on the record GenerateToken(n, r, ttl)
\* left passes validation, and succeeds at its last step if the record is still there;
\* the PackedKeys it returns hold a host certificate for n "." trust domain, signed
\* against the local trust domain, for role r, with TTL zero; the record is gone when
\* it returns, and no RegisterUsingToken on that token succeeds again.
C4_RedeemedExactlyOnce ==
  /\ [](Returned("RegisterUsingToken") /\ last.ret.err = "nil" =>
          /\ IsJoinCert(last.ret.keys.Cert, last.call.name, last.call.role)
          /\ last.ret.keys.Key # ""
          /\ ~tokens[RawOf(last.call.outputToken)].present
          /\ RawOf(last.call.outputToken) \in deleted)
  /\ [][\A p \in DOMAIN pc :
          (last'.proc = p /\ last'.call.op = "RegisterUsingToken") =>
            /\ (last'.ret.err = "nil" =>
                  /\ RawOf(last'.call.outputToken) \notin deleted
                  /\ Matches(RawOf(last'.call.outputToken), last'.call.name, last'.call.role))
            /\ (pc[p] = "idle" /\ RoleCheck(last'.call.role) =>
                  ~Matches(RawOf(last'.call.outputToken), last'.call.name, last'.call.role))
            /\ (pc[p] = "rut_delete" /\ tokens[RawOf(last'.call.outputToken)].present =>
                  last'.ret.err = "nil")]_vars

\* the node db1 has just been admitted with role Node
C4_Witness ==
  /\ Returned("RegisterUsingToken")
  /\ last.ret.err = "nil"
  /\ last.call.name = "db1"
  /\ last.call.role = "Node"
  /\ last.ret.keys.Cert.id = "db1.cluster.example"

\* C5: right after GenerateToken(n, r, ttl) has returned an output token, ValidateToken
\* of that output token with the domain name n returns the role r and no error.
C5_GenerateThenValidate ==
  (Returned("GenerateToken") /\ last.ret.err = "nil") =>
    /\ ValidateTokenResult(last.ret.outputToken, last.call.name).err = "nil"
    /\ ValidateTokenResult(last.ret.outputToken, last.call.name).role = last.call.role

\* GenerateToken("db1", Auth, ttl) has just returned an output token, and a
\* ValidateToken of it with "db1" returns Auth
C5_Witness ==
  /\ Returned("GenerateToken")
  /\ last.ret.err = "nil"
  /\ last.call.name = "db1"
  /\ last.call.role = RoleAuth
  /\ ValidateTokenResult(last.ret.outputToken, "db1").role = RoleAuth

\* C6: a RegisterUsingToken whose key-pair generation or host-certificate issuance
\* fails leaves the provisioning store as it was and has removed no record; the
\* provisioning store changes in a RegisterUsingToken only at its DeleteToken step,
\* which is reached only with a host certificate issued.
C6_FailureKeepsToken ==
  /\ [](\A p \in DOMAIN pc : pc[p] = "rut_delete" => local[p].cert # NoCert)
  /\ [][\A p \in DOMAIN pc :
          /\ (pc[p] \in {"rut_keypair", "rut_cert"} /\ pc'[p] # pc[p]) =>
                /\ tokens' = tokens
                /\ last'.proc = p => (last'.ret.err # "nil" /\ ~last'.consumed)
          /\ (last'.proc = p /\ last'.call.op = "RegisterUsingToken" /\ last'.ret.err # "nil") =>
                /\ ~last'.consumed
                /\ tokens' = tokens]_vars

\* a RegisterUsingToken has succeeded on a token whose earlier redemption the Signing
\* Backend had failed
C6_Witness ==
  /\ Returned("RegisterUsingToken")
  /\ last.ret.err = "nil"
  /\ RawOf(last.call.outputToken) \in faulted

\* C7: a RegisterNewAuthServer that returns an error has not removed the token record.
C7_FailedBootstrapKeepsToken ==
  (Returned("RegisterNewAuthServer") /\ last.ret.err # "nil") => ~last.consumed

\* the web-session record a returned call is about
StoredOf(user, id) == sessions[<<user, id>>]

\* C8: every stored web session holds a private key, and a Session returned without
\* error by GetWebSessionInfo, by SignIn or by CreateWebSession has an empty private
\* key although the record it is a view of has one.
C8_ReturnedSessionHasNoPriv ==
  /\ \A k \in DOMAIN sessions : sessions[k].present => sessions[k].ws.Priv # ""
  /\ (/\ last.proc # 0
      /\ last.call.op \in {"GetWebSessionInfo", "SignIn", "CreateWebSession"}
      /\ last.ret.err = "nil") =>
        /\ last.ret.session.WS.Priv = ""
        /\ StoredOf(last.call.name, last.ret.session.ID).present
        /\ StoredOf(last.call.name, last.ret.session.ID).ws.Priv # ""
        /\ last.ret.session.WS = ClearPriv(StoredOf(last.call.name, last.ret.session.ID).ws)

\* GetWebSessionInfo has just returned the view of a stored session that was created
\* by a renewal
C8_Witness ==
  /\ Returned("GetWebSessionInfo")
  /\ last.ret.err = "nil"
  /\ last.ret.session.ID = 2
  /\ StoredOf(last.call.name, 2).ws.Priv = "priv-pool"
  /\ last.ret.session.WS.Priv = ""

\* caller p takes this step
StepOf(p) == pc'[p] # pc[p] \/ last'.proc = p

\* the operation caller p is in after this step, or has returned from in it
OpOf(p) == IF last'.proc = p THEN last'.call.op ELSE call'[p].op

\* C9: every step of a SignIn or CreateWebSession call other than its successful
\* return leaves the web-session store as it is, so a call that returns an error has
\* made no change to the store.
C9_FailedCreationPersistsNothing ==
  [][\A p \in DOMAIN pc :
       (/\ StepOf(p)
        /\ OpOf(p) \in {"SignIn", "CreateWebSession"}
        /\ ~(last'.proc = p /\ last'.ret.err = "nil")) => sessions' = sessions]_vars

\* a renewal has just failed after its previous session was found, and the store
\* still holds only the one session there was
C9_Witness ==
  /\ Returned("CreateWebSession")
  /\ last.ret.err = "Internal"
  /\ Cardinality({k \in DOMAIN sessions : sessions[k].present}) = 1
  /\ nextSession = 2

\* the CA record a certificate of this kind is signed with has a first signing key
HasSigningKey(kind) == ca[kind].present /\ Len(ca[kind].keys) > 0

\* C10: a GenerateHostCert or GenerateUserCert called while the local CA record is
\* missing or has no signing keys returns an error, no certificate, and has made no
\* call to the Signing Backend; every call the Signing Backend receives carries the
\* first signing key of the CA record.
C10_NoSigningKeyNoBackendCall ==
  /\ \A c \in signing : HasSigningKey(c.kind) /\ c.pkey = ca[c.kind].keys[1]
  /\ (Returned("GenerateHostCert") /\ ~HasSigningKey(HostCA)) =>
        last.ret.err = "NotFound" /\ last.ret.keys.Cert = NoCert /\ signing = {}
  /\ (Returned("GenerateUserCert") /\ ~HasSigningKey(UserCA)) =>
        last.ret.err = "NotFound" /\ last.ret.keys.Cert = NoCert /\ signing = {}
  /\ (last.proc # 0 /\ last.call.op \in {"GenerateHostCert", "GenerateUserCert"}
        /\ last.ret.err = "nil") => signing # {}

\* GenerateUserCert has just failed on a user CA record that has no signing keys
C10_Witness ==
  /\ Returned("GenerateUserCert")
  /\ ca[UserCA].present
  /\ Len(ca[UserCA].keys) = 0
  /\ last.ret.err = "NotFound"
  /\ signing = {}

\* C11: every token record in the provisioning store is bound to a valid node name and
\* a valid role, and a GenerateToken with an invalid node name or role returns an
\* error and no output token; a RegisterUsingToken with an invalid role returns the
\* role error whether or not the token record exists (it has not read it), with no
\* keys, no call to the Signing Backend and the token record not removed.
C11_RoleCheckedFirst ==
  /\ \A t \in RawTokens :
       tokens[t].present => IsValidDomainName(tokens[t].DomainName) /\ RoleCheck(tokens[t].Role)
  /\ (Returned("GenerateToken")
        /\ (~IsValidDomainName(last.call.name) \/ ~RoleCheck(last.call.role))) =>
       /\ last.ret.err = "BadParameter"
       /\ last.ret.outputToken = <<>>
  /\ (Returned("RegisterUsingToken") /\ ~RoleCheck(last.call.role)) =>
       /\ last.ret.err = "BadParameter"
       /\ last.ret.keys = NoKeys
       /\ ~last.consumed
       /\ signing = {}

\* a RegisterUsingToken with an invalid role has just been turned down although the
\* record of its token is there and bound to its node name
C11_Witness ==
  /\ Returned("RegisterUsingToken")
  /\ last.call.role = BadRole
  /\ last.ret.err = "BadParameter"
  /\ RawOf(last.call.outputToken) \in RawTokens
  /\ tokens[RawOf(last.call.outputToken)].present
  /\ tokens[RawOf(last.call.outputToken)].DomainName = last.call.name

\* the record of the raw token t is there and bound to another node name or role
Mismatches(t, nodename, role) ==
  /\ t \in RawTokens
  /\ tokens[t].present
  /\ (tokens[t].DomainName # nodename \/ tokens[t].Role # role)

\* C12: a RegisterUsingToken goes on to generate a key pair only if the record it has
\* fetched is bound to the supplied node name and role, and returns PackedKeys only
\* after that; when the record is bound to another name or role it returns an error
\* in that step, with no key pair generated, no call to the Signing Backend and the
\* provisioning store unchanged.
C12_RedeemsOnlyOnMatch ==
  /\ [](Returned("RegisterUsingToken") /\ last.ret.err = "nil" =>
          /\ last.ret.keys.Cert.id = FQDN(last.call.name)
          /\ last.ret.keys.Cert.role = last.call.role)
  /\ [][\A p \in DOMAIN pc :
          /\ (pc[p] = "idle" /\ pc'[p] = "rut_keypair") =>
               Matches(RawOf(call'[p].outputToken), call'[p].name, call'[p].role)
          /\ (last'.proc = p /\ last'.call.op = "RegisterUsingToken" /\ last'.ret.err = "nil") =>
               pc[p] = "rut_delete"
          /\ (/\ last'.proc = p
              /\ last'.call.op = "RegisterUsingToken"
              /\ pc[p] = "idle"
              /\ Mismatches(RawOf(last'.call.outputToken), last'.call.name, last'.call.role)) =>
               /\ last'.ret.err # "nil"
               /\ last'.ret.keys = NoKeys
               /\ ~last'.consumed
               /\ signing' = {}
               /\ tokens' = tokens]_vars

\* a RegisterUsingToken with a valid role has just been turned down because the
\* record, bound to its node name, is bound to another role
C12_Witness ==
  /\ Returned("RegisterUsingToken")
  /\ RoleCheck(last.call.role)
  /\ last.ret.err = "BadParameter"
  /\ RawOf(last.call.outputToken) \in RawTokens
  /\ tokens[RawOf(last.call.outputToken)].present
  /\ tokens[RawOf(last.call.outputToken)].DomainName = last.call.name
  /\ tokens[RawOf(last.call.outputToken)].Role # last.call.role

\* C13: a RegisterNewAuthServer goes on to delete the token only if the record it has
\* fetched is bound to the supplied domain name and to the role Auth, and returns the
\* sign key only after that; when the record is bound to another name or role it
\* returns access denied in that step, with no sign key, the provisioning store and
\* the seal keys unchanged.
C13_PeerAdmittedOnlyOnMatch ==
  /\ [](Returned("RegisterNewAuthServer") /\ last.ret.err = "AccessDenied" =>
          last.ret.key = "" /\ ~last.consumed)
  /\ [][\A p \in DOMAIN pc :
          /\ (pc[p] = "idle" /\ pc'[p] = "rna_delete") =>
               Matches(RawOf(call'[p].outputToken), call'[p].name, RoleAuth)
          /\ (last'.proc = p /\ last'.call.op = "RegisterNewAuthServer" /\ last'.ret.err = "nil") =>
               pc[p] = "rna_sign" /\ last'.ret.key = Public(SignKey)
          /\ (/\ last'.proc = p
              /\ last'.call.op = "RegisterNewAuthServer"
              /\ pc[p] = "idle"
              /\ Mismatches(RawOf(last'.call.outputToken), last'.call.name, RoleAuth)) =>
               /\ last'.ret.err = "AccessDenied"
               /\ last'.ret.key = ""
               /\ ~last'.consumed
               /\ sealKeys' = sealKeys
               /\ tokens' = tokens]_vars

\* a RegisterNewAuthServer has just been denied because the record, bound to its
\* domain name, is bound to the role Node
C13_Witness ==
  /\ Returned("RegisterNewAuthServer")
  /\ last.ret.err = "AccessDenied"
  /\ RawOf(last.call.outputToken) \in RawTokens
  /\ tokens[RawOf(last.call.outputToken)].present
  /\ tokens[RawOf(last.call.outputToken)].DomainName = last.call.name
  /\ tokens[RawOf(last.call.outputToken)].Role = "Node"
  /\ sealKeys = {}

\* C14: a ValidateToken, whether it returns a role or an error, leaves the
\* provisioning store as it was; right after it has returned a role, the record
\* is still bound to that domain name and role, so the same ValidateToken returns
\* the role again and a RegisterUsingToken with that name and role passes its
\* comparison of the record.
C14_ValidateTokenReadOnly ==
  /\ [](Returned("ValidateToken") /\ last.ret.err = "nil" =>
          /\ Matches(RawOf(last.call.outputToken), last.call.name, last.ret.role)
          /\ ValidateTokenResult(last.call.outputToken, last.call.name) = last.ret)
  /\ [][(last'.proc # 0 /\ last'.call.op = "ValidateToken") =>
          /\ tokens' = tokens
          /\ deleted' = deleted
          /\ ~last'.consumed]_vars

\* a ValidateToken has just returned the role Node of a record that is still there
C14_Witness ==
  /\ Returned("ValidateToken")
  /\ last.ret.err = "nil"
  /\ last.ret.role = "Node"
  /\ tokens[RawOf(last.call.outputToken)].present

\* the role tags an output token can carry
Tags == {out[1] : out \in {o \in OutputTokens : Len(o) = 2}}

\* C19: two output tokens that carry the same raw token under different role tags get
\* the same result and the same provisioning store from ValidateToken and DeleteToken
\* and the same verdict from the comparisons of RegisterUsingToken and
\* RegisterNewAuthServer; the verdict is the one the persisted record gives, whatever
\* the tag.
C19_RoleTagNeverDecides ==
  \A raw \in RawTokens, t1 \in Tags, t2 \in Tags, d \in NodeNames :
    /\ ValidateTokenResult(<<t1, raw>>, d) = ValidateTokenResult(<<t2, raw>>, d)
    /\ DeleteTokenResult(<<t1, raw>>) = DeleteTokenResult(<<t2, raw>>)
    /\ RegisterNewAuthServer_Validate(d, <<t1, raw>>) = RegisterNewAuthServer_Validate(d, <<t2, raw>>)
    /\ RegisterNewAuthServer_Validate(d, <<t1, raw>>) = "nil" <=> Matches(raw, d, RoleAuth)
    /\ \A r \in ValidRoles \cup {BadRole} :
         /\ RegisterUsingToken_Validate(<<t1, raw>>, d, r) = RegisterUsingToken_Validate(<<t2, raw>>, d, r)
         /\ RegisterUsingToken_Validate(<<t1, raw>>, d, r) = "nil" <=> (RoleCheck(r) /\ Matches(raw, d, r))

\* a RegisterUsingToken for the role Node has just been admitted on an output token
\* tagged Auth
C19_Witness ==
  /\ Returned("RegisterUsingToken")
  /\ last.ret.err = "nil"
  /\ last.call.role = "Node"
  /\ last.call.outputToken[1] = RoleAuth

\* the session caller p holds is the record stored under its user and ID, kept for
\* ttl minutes from now
Persisted(p, ttl) ==
  sessions'[<<call[p].name, local[p].sess.ID>>] =
    [present |-> TRUE, ws |-> local[p].sess.WS, deadline |-> now + ttl]

\* C15: the session NewWebSession returns to SignIn or CreateWebSession expires at the
\* clock's Now(), in UTC, plus 10 minutes, and the SignIn or CreateWebSession that
\* succeeds has stored that session, unchanged, with a TTL of 10 minutes.
C15_ExpiresTenMinutes ==
  /\ [](\A p \in DOMAIN pc :
          pc[p] \in {"si_upsert", "cws_upsert"} => local[p].sess.WS.Expires.loc = "UTC")
  /\ [][\A p \in DOMAIN pc :
          /\ (pc[p] \in {"si_new", "cws_new"} /\ pc'[p] \in {"si_upsert", "cws_upsert"}) =>
               local'[p].sess.WS.Expires = [t |-> now + 10, loc |-> "UTC"]
          /\ (/\ pc[p] \in {"si_upsert", "cws_upsert"}
              /\ last'.proc = p
              /\ last'.ret.err = "nil") =>
               /\ Persisted(p, 10)
               /\ last'.ret.session.WS.Expires = local[p].sess.WS.Expires]_vars

\* a SignIn at minute 10 has just returned a session that expires at minute 20, UTC
C15_Witness ==
  /\ Returned("SignIn")
  /\ last.ret.err = "nil"
  /\ now = 10
  /\ last.ret.session.WS.Expires = [t |-> 20, loc |-> "UTC"]
  /\ StoredOf(last.call.name, last.ret.session.ID).deadline = 20

\* the previous session ID a CreateWebSession call names
PrevOf(c) == c.outputToken[1]

\* C16: a CreateWebSession goes on to create a session only if a session is stored
\* under its user and previous session ID, and succeeds only after that; when none is
\* stored it returns not found in that step, with the web-session store unchanged and
\* no session ID drawn.  GetWebSession finds a stored session whatever its Expires.
C16_RenewalNeedsStoredSession ==
  /\ [](\A u \in UserNames, id \in SessionIDs :
          GetWebSessionResult(u, id, TRUE).err = "nil" <=> StoredOf(u, id).present)
  /\ [][\A p \in DOMAIN pc :
          /\ (pc[p] = "idle" /\ pc'[p] = "cws_new") =>
               StoredOf(call'[p].name, PrevOf(call'[p])).present
          /\ (last'.proc = p /\ last'.call.op = "CreateWebSession" /\ last'.ret.err = "nil") =>
               pc[p] = "cws_upsert"
          /\ (/\ last'.proc = p
              /\ last'.call.op = "CreateWebSession"
              /\ pc[p] = "idle"
              /\ ~StoredOf(last'.call.name, PrevOf(last'.call)).present) =>
               /\ last'.ret.err = "NotFound"
               /\ last'.ret.session = NoSession
               /\ sessions' = sessions
               /\ nextSession' = nextSession]_vars

\* a CreateWebSession has just renewed a session that is still stored although its
\* Expires has passed
C16_Witness ==
  /\ Returned("CreateWebSession")
  /\ last.ret.err = "nil"
  /\ StoredOf(last.call.name, PrevOf(last.call)).present
  /\ StoredOf(last.call.name, PrevOf(last.call)).ws.Expires.t <= now
  /\ last.ret.session.ID # PrevOf(last.call)

\* C17: the stored record of every web session keeps its private key; right after
\* SignIn, CreateWebSession or GetWebSessionInfo has returned a session with the key
\* cleared, GetWebSession of the same user and session ID returns the stored session
\* with the key, and a GetWebSession that has returned has returned the stored record
\* as it is.
C17_RedactionNotPersisted ==
  /\ \A k \in DOMAIN sessions : sessions[k].present => sessions[k].ws.Priv = "priv-pool"
  /\ (/\ last.proc # 0
      /\ last.call.op \in {"SignIn", "CreateWebSession", "GetWebSessionInfo"}
      /\ last.ret.err = "nil") =>
        LET g == GetWebSessionResult(last.call.name, last.ret.session.ID, TRUE) IN
        /\ g.err = "nil"
        /\ g.session.WS.Priv = "priv-pool"
        /\ ClearPriv(g.session.WS) = last.ret.session.WS
  /\ (Returned("GetWebSession") /\ last.ret.err = "nil") =>
        /\ last.ret.session.WS = StoredOf(last.call.name, last.ret.session.ID).ws
        /\ last.ret.session.WS.Priv = "priv-pool"

\* GetWebSession has just returned the private key of a stored session
C17_Witness ==
  /\ Returned("GetWebSession")
  /\ last.ret.err = "nil"
  /\ last.ret.session.WS.Priv = "priv-pool"
  /\ last.ret.session.ID = 1

\* the user and session ID a web-session call names
KeyOf(c) == <<c.name, c.outputToken[1]>>

\* the session ID of k has been drawn, no session is stored under k and no caller is
\* about to store one: the session has been revoked, or dropped by the store's TTL
Gone(k) ==
  /\ k[2] < nextSession
  /\ ~sessions[k].present
  /\ \A p \in DOMAIN pc :
       ~(pc[p] \in {"si_upsert", "cws_upsert"} /\ <<call[p].name, local[p].sess.ID>> = k)

\* the same, after the step
GoneNext(k) ==
  /\ k[2] < nextSession'
  /\ ~sessions'[k].present
  /\ \A p \in DOMAIN pc :
       ~(pc'[p] \in {"si_upsert", "cws_upsert"} /\ <<call'[p].name, local'[p].sess.ID>> = k)

\* C18: a DeleteWebSession that succeeds leaves no session stored under its user and
\* session ID; from then on no session is stored under them again, every GetWebSession
\* and GetWebSessionInfo of them returns not found, and every CreateWebSession that
\* names them as the previous session returns not found without creating a session.
C18_RevokedSessionUnusable ==
  /\ [](Returned("DeleteWebSession") /\ last.ret.err = "nil" => Gone(KeyOf(last.call)))
  /\ [][\A k \in DOMAIN sessions :
          Gone(k) =>
            /\ GoneNext(k)
            /\ (/\ last'.proc # 0
                /\ last'.call.op \in {"GetWebSession", "GetWebSessionInfo"}
                /\ KeyOf(last'.call) = k) =>
                 last'.ret.err = "NotFound" /\ last'.ret.session = NoSession
            /\ \A p \in DOMAIN pc :
                 /\ (pc[p] = "idle" /\ pc'[p] = "cws_new") => KeyOf(call'[p]) # k
                 /\ (/\ pc[p] = "idle"
                     /\ last'.proc = p
                     /\ last'.call.op = "CreateWebSession"
                     /\ KeyOf(last'.call) = k) =>
                      last'.ret.err = "NotFound" /\ nextSession' = nextSession]_vars

\* a GetWebSessionInfo has just returned not found for a session that was stored when
\* a renewal still in progress fetched it, and that has been deleted since (its TTL
\* has not run out)
C18_Witness ==
  /\ Returned("GetWebSessionInfo")
  /\ last.ret.err = "NotFound"
  /\ Gone(KeyOf(last.call))
  /\ now = 0
  /\ \E q \in DOMAIN pc : pc[q] = "cws_new" /\ KeyOf(call[q]) = KeyOf(last.call)

\* C20: no step of SignIn, CreateWebSession, GetWebSession or GetWebSessionInfo removes
\* or changes a stored web-session record; a stored record goes away only in a
\* DeleteWebSession of its user and session ID that succeeds, or when the store drops
\* it at the end of its TTL; the CreateWebSession that succeeds stores the new session
\* under a session ID other than the previous one.
C20_OnlyDeleteRemoves ==
  /\ [](Returned("CreateWebSession") /\ last.ret.err = "nil" =>
          /\ last.ret.session.ID # PrevOf(last.call)
          /\ StoredOf(last.call.name, last.ret.session.ID).present)
  /\ [][\A k \in DOMAIN sessions :
          sessions[k].present =>
            /\ (\E p \in DOMAIN pc :
                  /\ StepOf(p)
                  /\ OpOf(p) \in {"SignIn", "CreateWebSession", "GetWebSession",
                                  "GetWebSessionInfo"}) => sessions'[k] = sessions[k]
            /\ sessions'[k] # sessions[k] =>
                 /\ ~sessions'[k].present
                 /\ \/ /\ last'.proc # 0
                       /\ last'.call.op = "DeleteWebSession"
                       /\ last'.ret.err = "nil"
                       /\ KeyOf(last'.call) = k
                    \/ /\ last'.proc = 0
                       /\ sessions[k].deadline <= now
                       /\ pc' = pc]_vars

\* a CreateWebSession has just succeeded, and GetWebSession finds both the previous
\* session and the new one
C20_Witness ==
  /\ Returned("CreateWebSession")
  /\ last.ret.err = "nil"
  /\ last.ret.session.ID # PrevOf(last.call)
  /\ GetWebSessionResult(last.call.name, PrevOf(last.call), TRUE).err = "nil"
  /\ GetWebSessionResult(last.call.name, last.ret.session.ID, TRUE).err = "nil"

====
